---------------------------- MODULE Spec2Model ----------------------------
(***************************************************************************)
(* A model of the GenerationOne TM/TC client (src/tmtc/tmtc_py4j.py):      *)
(* the name resolver of ModelInspector, the session and the commands of    *)
(* TMTCPy4j, and the chunked transfers (uplink, downlink) with their       *)
(* transfer listener.                                                      *)
(*                                                                         *)
(* Python values are tagged records.  A call's result is a record          *)
(* [err, msg, val]: err = "none" for a normal return, otherwise the name   *)
(* of the exception class that propagates.                                 *)
(***************************************************************************)
EXTENDS Integers, Sequences, FiniteSets, TLC

VARIABLES
    db,                 \* ModelInspector: the entities of one kind, in id order
    name_lookup_tree,   \* ModelInspector.<kind>_name_lookup_tree
    lookup,             \* the last model query and what it returned or raised
    command_handler,    \* TMTCPy4j._command_handler: "None" or "handler"
    j_link,             \* the connection's _j_link: "None", "created", "connected"
    handler_listeners,  \* telemetry listeners attached to the command handler
    requests,           \* the requests the collaborator received in the last command
    last,               \* the last operation called and how it ended
    pc,                 \* where the calling thread is inside uplink/downlink
    transfer,           \* the transfer in hand: client locals and collaborator state
    completion_q,       \* the transfer listener's queue.Queue(maxsize=1)
    listeners,          \* _TMListener.listeners: the registered subscribers
    notifying,          \* the notify() call in hand: its snapshot and its progress
    tm_queue,           \* what the subscribed queue.Queue holds
    codec,              \* the last value encoded or decoded and what came out
    with_block,         \* the with statement on the session: "outside", "body", "left"
    event               \* the event the gateway hands to eventReceived, and what is notified

namesVars == <<db, name_lookup_tree, lookup>>

sessionVars == <<command_handler, j_link, handler_listeners>>

transferVars == <<pc, transfer, completion_q>>

telemetryVars == <<listeners, notifying, tm_queue>>

\* What only the codec, the with statement and the event listener touch
asideVars == <<codec, with_block, event>>

vars == <<db, name_lookup_tree, lookup, command_handler, j_link,
          handler_listeners, requests, last, pc, transfer, completion_q,
          listeners, notifying, tm_queue, codec, with_block, event>>

-----------------------------------------------------------------------------
(* Results of calls *)

Ret(v) == [err |-> "none", msg |-> "", val |-> v]

\* None, as a Python value (the values are defined further down)
PyNone == [k |-> "None", n |-> 0, s |-> <<>>]

Raise(e, m) == [err |-> e, msg |-> m, val |-> PyNone]

Raised(r) == r.err # "none"

\* The arguments of a call that takes none
NoArgs == [parameter |-> PyNone]

-----------------------------------------------------------------------------
(* Bounds and input sets of the name resolver *)

MaxEntities == 2

\* Fully qualified names, split on '.', that a database may hold.
NamePool ==
    { <<"c">>, <<"b", "c">>, <<"a", "b", "c">>, <<"x", "b", "c">>,
      <<"x", "c">>, <<"a", "d">> }

\* Names a caller may ask for.
QueryPool ==
    NamePool \cup { <<"d">>, <<"b">>, <<"a", "c">>, <<"x", "a", "b", "c">> }

\* An entity: its full name and the number of trailing segments that make up
\* its short name (getName()); more than one means a dot in the short name.
Entities ==
    { e \in [full : NamePool, shortLen : 1..2, id : 0..(MaxEntities - 1)] :
        e.shortLen <= Len(e.full) }

\* A database lists its entities in id order (getAllById), ids from 0.
Databases ==
    { d \in UNION { [1..n -> Entities] : n \in 1..MaxEntities } :
        /\ \A i \in 1..Len(d) : d[i].id = i - 1
        /\ \A i, j \in 1..Len(d) : i # j => d[i].full # d[j].full }

Ids(d) == { d[i].id : i \in 1..Len(d) }

\* getById(id), for an identifier the database holds
GetById(d, id) == d[CHOOSE i \in 1..Len(d) : d[i].id = id]

-----------------------------------------------------------------------------
(* The lookup tree: a nested dict keyed by name segments, most specific     *)
(* first.  A node is a leaf (an identifier), a dict (its items in insertion *)
(* order, as Python keeps them), or None.                                   *)

Leaf(i) == [tag |-> "leaf", id |-> i, items |-> <<>>]

Dict(items) == [tag |-> "dict", id |-> 0, items |-> items]

None == [tag |-> "none", id |-> 0, items |-> <<>>]

\* A put into something that is not a dict (TypeError while building).
Broken == [tag |-> "broken", id |-> 0, items |-> <<>>]

Item(k, n) == [key |-> k, node |-> n]

HasKey(d, k) == \E i \in 1..Len(d.items) : d.items[i].key = k

\* dict.get(d, k): None when the key is absent
DictGet(d, k) ==
    IF HasKey(d, k)
    THEN d.items[CHOOSE i \in 1..Len(d.items) : d.items[i].key = k].node
    ELSE None

\* d[k] = n: an existing key keeps its place
DictSet(d, k, n) ==
    IF HasKey(d, k)
    THEN Dict([i \in 1..Len(d.items) |->
                  IF d.items[i].key = k THEN Item(k, n) ELSE d.items[i]])
    ELSE Dict(Append(d.items, Item(k, n)))

Reverse(s) == [i \in 1..Len(s) |-> s[Len(s) + 1 - i]]

RECURSIVE _lookup_tree_put(_, _, _)
_lookup_tree_put(tree, keys, value) ==
    IF tree.tag # "dict"
    THEN Broken
    ELSE IF Len(keys) > 1
    THEN LET key == Head(keys)
             rest == Tail(keys)
             child == IF HasKey(tree, key) THEN DictGet(tree, key) ELSE Dict(<<>>)
             put == _lookup_tree_put(child, rest, value)
         IN  IF put.tag = "broken" THEN Broken ELSE DictSet(tree, key, put)
    ELSE DictSet(tree, keys[1], Leaf(value))

\* functools.reduce(dict.get, keys.split('.')[::-1], tree), None on TypeError
RECURSIVE ReduceGet(_, _)
ReduceGet(node, keys) ==
    IF keys = <<>> THEN node
    ELSE IF node.tag # "dict" THEN None
    ELSE ReduceGet(DictGet(node, Head(keys)), Tail(keys))

_lookup_tree_get(tree, keys) == ReduceGet(tree, Reverse(keys))

RECURSIVE _lookup_tree_get_id(_)
_lookup_tree_get_id(d) ==
    IF d.tag = "dict" /\ Len(d.items) > 0
    THEN _lookup_tree_get_id(d.items[1].node)
    ELSE d

\* The (reversed name, id) pairs of the entities with no dot in their short
\* name, sorted by name depth, deepest first (a stable sort).
NameAndIds(d) ==
    LET idx == SelectSeq([i \in 1..Len(d) |-> i], LAMBDA i : d[i].shortLen = 1)
        pairs == [k \in 1..Len(idx) |->
                     [name |-> Reverse(d[idx[k]].full), id |-> d[idx[k]].id]]
        RECURSIVE ByDepth(_)
        ByDepth(n) ==
            IF n = 0 THEN <<>>
            ELSE SelectSeq(pairs, LAMBDA p : Len(p.name) = n) \o ByDepth(n - 1)
        deepest == IF Len(pairs) = 0 THEN 0
                   ELSE CHOOSE n \in 1..4 :
                          /\ \E k \in 1..Len(pairs) : Len(pairs[k].name) = n
                          /\ \A k \in 1..Len(pairs) : Len(pairs[k].name) <= n
    IN  ByDepth(deepest)

RECURSIVE PutAll(_, _)
PutAll(tree, pairs) ==
    IF pairs = <<>> THEN tree
    ELSE PutAll(_lookup_tree_put(tree, Head(pairs).name, Head(pairs).id),
                Tail(pairs))

_init_name_lookup_tree(d) == PutAll(Dict(<<>>), NameAndIds(d))

-----------------------------------------------------------------------------
(* Name to identifier, identifier to name *)

\* instance_elements.getByName(name): the entity with that full name, if any
HasName(d, name) == \E i \in 1..Len(d) : d[i].full = name

GetByName(d, name) == d[CHOOSE i \in 1..Len(d) : d[i].full = name]

_partial_name_to_id(name, lookup_tree) ==
    LET name_tree == _lookup_tree_get(lookup_tree, name)
    IN  IF name_tree.tag = "leaf"
        THEN Ret(name_tree.id)
        ELSE LET potential_matches ==
                     IF name_tree.tag = "none" THEN 0 ELSE Len(name_tree.items)
             IN  IF potential_matches > 1
                 THEN Raise("TMTCModelQueryError", "Name provided is ambiguous")
                 ELSE IF potential_matches = 0
                 THEN Raise("TMTCModelQueryError", "No matching name found")
                 ELSE Ret(_lookup_tree_get_id(name_tree).id)

_name_to_id(name, instance_elements, lookup_tree) ==
    IF HasName(instance_elements, name)
    THEN Ret(GetByName(instance_elements, name).id)
    ELSE _partial_name_to_id(name, lookup_tree)

\* instance_elements.getById(id_).getFullName(): getById gives None for an
\* identifier that is not in the database, and None has no getFullName.
_id_to_name(id_, instance_elements) ==
    IF id_ \notin Ids(instance_elements)
    THEN Raise("AttributeError", "'NoneType' object has no attribute 'getFullName'")
    ELSE LET name == GetById(instance_elements, id_).full
         IN  IF name # <<>>
             THEN Ret(name)
             ELSE Raise("TMTCModelQueryError", "No matching name found")

-----------------------------------------------------------------------------
(* The spacecraft database the session works with: parameters, parameter    *)
(* blocks, actions and onboard exceptions, each entity with its identifier  *)
(* (getId) and full name (getFullName).                                     *)

ParameterDefinition(ts, tc, minr, maxr, bits, bytes, ro) ==
    [type_str |-> ts, type_class |-> tc, min_rows |-> minr, max_rows |-> maxr,
     bits_per_row |-> bits, bytes_per_row |-> bytes, is_read_only |-> ro]

Parameter(id, full, definition) ==
    [full |-> full, shortLen |-> 1, id |-> id, definition |-> definition]

\* getParameters()
Parameters ==
    << Parameter(0, <<"obc", "mode">>,
                 ParameterDefinition("unsigned", "value", 1, 1, 8, 1, FALSE)),
       Parameter(1, <<"obc", "temp">>,
                 ParameterDefinition("signed", "value", 1, 1, 8, 1, TRUE)),
       Parameter(2, <<"obc", "table">>,
                 ParameterDefinition("raw", "fixed_vector", 1, 2, 16, 2, FALSE)),
       Parameter(3, <<"stx", "buffer">>,
                 ParameterDefinition("varaw", "var_raw", 0, 3, 24, 3, FALSE)),
       Parameter(4, <<"stx", "table">>,
                 ParameterDefinition("raw", "fixed_vector", 1, 2, 16, 2, TRUE)) >>

\* getParameterBlocks()
ParameterBlocks ==
    << [full |-> <<"storage", "channels">>, shortLen |-> 1, id |-> 20] >>

Argument(minb, maxb, fixed) ==
    [min_bytes |-> minb, max_bytes |-> maxb, is_fixed_size |-> fixed]

\* getActions(): each with its arguments (none or one)
Actions ==
    << [full |-> <<"obc", "reset">>, shortLen |-> 1, id |-> 0,
        arguments |-> <<>>],
       [full |-> <<"obc", "load">>, shortLen |-> 1, id |-> 1,
        arguments |-> <<Argument(2, 2, TRUE)>>],
       [full |-> <<"stx", "send">>, shortLen |-> 1, id |-> 2,
        arguments |-> <<Argument(1, 3, FALSE)>>] >>

\* getExceptions(): the onboard exceptions the database knows
Exceptions ==
    << [full |-> <<"core", "ok">>, shortLen |-> 1, id |-> 0,
        description |-> "no error"],
       [full |-> <<"core", "busy">>, shortLen |-> 1, id |-> 1,
        description |-> "resource busy"] >>

\* Exception codes the onboard software may report: 1..MaxExcCode.
MaxExcCode == 2

ExcCodes == 1..MaxExcCode

\* An identifier the database does not hold
AbsentId == 9

-----------------------------------------------------------------------------
(* Python values *)

PyInt(n) == [k |-> "int", n |-> n, s |-> <<>>]

PyBytes(s) == [k |-> "bytes", n |-> 0, s |-> s]

PyStr(s) == [k |-> "str", n |-> 0, s |-> s]

PyFloat(n) == [k |-> "float", n |-> n, s |-> <<>>]

PyList(rows) == [k |-> "list", n |-> 0, s |-> rows]

\* isinstance(value, Iterable)
\* Only a list taken for an iterable
OnlyListIsIterable(value) == value.k = "list"

IsIterable(value) == value.k \in {"bytes", "str", "list"}

\* for row in value: bytes give ints, a list gives its elements
RowsOf(value) ==
    IF value.k = "bytes" THEN [i \in 1..Len(value.s) |-> PyInt(value.s[i])]
    ELSE IF value.k = "str" THEN [i \in 1..Len(value.s) |-> PyStr(<<value.s[i]>>)]
    ELSE value.s

\* bool(value)
Truthy(value) ==
    CASE value.k = "None" -> FALSE
      [] value.k \in {"int", "float"} -> value.n # 0
      [] OTHER -> Len(value.s) > 0

RECURSIVE Pow(_, _)
Pow(b, e) == IF e = 0 THEN 1 ELSE b * Pow(b, e - 1)

\* v >> (8 * k), on Python's unbounded ints (floor division)
RECURSIVE ShiftRight(_, _)
ShiftRight(v, k) == IF k = 0 THEN v ELSE ShiftRight(v \div 256, k - 1)

\* The least significant byte first
LittleEndian(u, n) == [i \in 1..n |-> ShiftRight(u, i - 1) % 256]

\* The n low bytes of u, the most significant first (two's complement for a
\* negative u)
BigEndian(u, n) == [i \in 1..n |-> ShiftRight(u, n - i) % 256]

\* int.to_bytes(n, 'big', signed=...): OverflowError when it does not fit
to_bytes(v, n, signed) ==
    IF signed
    THEN IF ShiftRight(v, n - 1) >= -128 /\ ShiftRight(v, n - 1) <= 127
         THEN Ret(BigEndian(v, n))
         ELSE Raise("OverflowError", "int too big to convert")
    ELSE IF v < 0
         THEN Raise("OverflowError", "can't convert negative int to unsigned")
         ELSE IF ShiftRight(v, n) = 0
              THEN Ret(BigEndian(v, n))
              ELSE Raise("OverflowError", "int too big to convert")

\* The bytes read after `acc`, the most significant first
RECURSIVE ReadBytes(_, _)
ReadBytes(acc, bytes) ==
    IF bytes = <<>> THEN acc
    ELSE ReadBytes(256 * acc + Head(bytes), Tail(bytes))

getUnsignedValue(bytes) == ReadBytes(0, bytes)

\* The first byte carries the sign
getSignedValue(bytes) ==
    IF bytes = <<>> THEN 0
    ELSE ReadBytes(IF bytes[1] >= 128 THEN bytes[1] - 256 ELSE bytes[1],
                   Tail(bytes))

\* struct.pack / struct.unpack of a float, as an injective row of its own
\* width: the value's sign byte and magnitude.
struct_pack(width, n) ==
    [i \in 1..width |-> IF i = 1 THEN (IF n < 0 THEN 1 ELSE 0)
                        ELSE IF i = width THEN (IF n < 0 THEN -n ELSE n) % 256
                        ELSE 0]

struct_unpack(bytes) ==
    IF bytes[1] = 1 THEN -bytes[Len(bytes)] ELSE bytes[Len(bytes)]

\* a is not b, on ints: CPython shares the small ints only, so two equal
\* ints above 256 are distinct objects.
IsNot(a, b) == a # b \/ a > 256

-----------------------------------------------------------------------------
(* The type codec *)

\* No range of its own: every int passes the comparison
unbounded_range(n) ==
    [lower |-> 0 - Pow(2, 30) - Pow(2, 30), upper |-> Pow(2, 30) - 1 + Pow(2, 30)]

twos_complement_range(n) == [lower |-> -Pow(2, n - 1), upper |-> Pow(2, n - 1) - 1]

CannotConvert == "Cannot convert to Gen1 type"

\* Exceptions of the body that the trailing except clause turns into
\* TypeError('Cannot convert ...')
Converted(r) ==
    IF r.err \in {"AttributeError", "ValueError"}
    THEN Raise("TypeError", CannotConvert)
    ELSE r

name_to_parameter_id(name) ==
    _name_to_id(name, Parameters, _init_name_lookup_tree(Parameters))

\* The body of _to_gen1_type once a parameterref given by name is resolved
Encode(value, parameter_type, validate_len, B) ==
    IF parameter_type.type_str \in {"parameterref", "unsigned", "bitfield"}
    THEN IF value.k = "int"
         THEN to_bytes(value.n, B, FALSE)
         ELSE Converted(Raise("AttributeError", "to_bytes"))
    ELSE IF parameter_type.type_str = "signed"
    THEN IF value.k \notin {"int", "float"}
         THEN Raise("TypeError", "'<=' not supported")
         ELSE IF ~(twos_complement_range(parameter_type.bits_per_row).lower <= value.n
                   /\ value.n <= twos_complement_range(parameter_type.bits_per_row).upper)
         THEN Converted(Raise("ValueError", "value outwith signed range"))
         ELSE IF value.k = "float"
         THEN Converted(Raise("AttributeError", "to_bytes"))
         ELSE to_bytes(value.n, B, TRUE)
    ELSE IF parameter_type.type_str = "float"
    THEN IF value.k \in {"int", "float"}
         THEN Ret(struct_pack(IF B = 4 THEN 4 ELSE 8, value.n))
         ELSE Raise("struct.error", "required argument is not a float")
    ELSE IF parameter_type.type_class = "var_raw"
    THEN IF value.k # "bytes"
         THEN Raise("TypeError", "a bytes-like object is expected")
         ELSE IF parameter_type.min_rows <= Len(value.s) /\ Len(value.s) <= B
         THEN Ret(value.s)
         ELSE Converted(Raise("ValueError", "len(value) not in range"))
    ELSE IF value.k = "int"
    THEN to_bytes(value.n, B, FALSE)
    ELSE IF value.k \in {"float", "None"}
    THEN Raise("TypeError", "object has no len()")
    ELSE IF IsNot(Len(value.s), B) /\ validate_len
    THEN Converted(Raise("ValueError", "Provided bytearray wrong length"))
    ELSE Ret(value.s)

\* A parameterref given as a str is first resolved to the parameter's id
EncodeResolved(resolved, parameter_type, validate_len) ==
    IF Raised(resolved) THEN resolved
    ELSE Encode(PyInt(resolved.val), parameter_type, validate_len,
                parameter_type.bytes_per_row)

_to_gen1_type(value, parameter_type, validate_len) ==
    IF parameter_type.type_str = "parameterref" /\ value.k = "str"
    THEN EncodeResolved(name_to_parameter_id(value.s), parameter_type, validate_len)
    ELSE Encode(value, parameter_type, validate_len, parameter_type.bytes_per_row)

\* Every bitfield treated as a boolean, whatever its width
AnyBitfieldAsBoolean(param_def) == param_def.type_str = "bitfield"

\* Special case, treat as boolean
TreatAsBoolean(param_def) ==
    param_def.type_str = "bitfield" /\ param_def.bits_per_row = 1

_from_gen1_type(bytes, param_def) ==
    IF param_def.type_str \in {"unsigned", "bitfield"}
    THEN IF TreatAsBoolean(param_def)
         THEN [k |-> "bool", n |-> IF getUnsignedValue(bytes) # 0 THEN 1 ELSE 0,
               s |-> <<>>]
         ELSE PyInt(getUnsignedValue(bytes))
    ELSE IF param_def.type_str = "signed"
    THEN PyInt(getSignedValue(bytes))
    ELSE IF param_def.type_str = "float"
    THEN PyFloat(struct_unpack(bytes))
    ELSE IF param_def.type_str = "parameterref"
    THEN IF getUnsignedValue(bytes) \in Ids(Parameters)
         THEN PyStr(GetById(Parameters, getUnsignedValue(bytes)).full)
         ELSE PyInt(getUnsignedValue(bytes))
    ELSE PyBytes(bytes)

-----------------------------------------------------------------------------
(* Model queries of the session *)

RaiseWith(e, m, v) == [err |-> e, msg |-> m, val |-> v]

\* An optional argument: <<>> is None, <<v>> is the value v.
IsGiven(opt) == opt # <<>>

\* bool(opt), for an optional int
OptTruthy(opt) == opt # <<>> /\ opt[1] # 0

\* name or identifier -> identifier, over the entities of one kind
ToId(name_or_id, elements) ==
    IF name_or_id.k = "str"
    THEN _name_to_id(name_or_id.s, elements, _init_name_lookup_tree(elements))
    ELSE IF name_or_id.k = "int"
    THEN Ret(name_or_id.n)
    ELSE Raise("TypeError", "requires str or int")

parameter_instance(parameter) ==
    LET id == ToId(parameter, Parameters)
    IN  IF Raised(id) THEN id
        ELSE IF id.val \notin Ids(Parameters)
        THEN Raise("TMTCModelQueryError", "Parameter not present in deployment")
        ELSE Ret(GetById(Parameters, id.val))

\* The dummy type description of a parameter inside a block
BlockElementDefinition ==
    ParameterDefinition("raw", "var_vector", 1, 65535, 8, 1, FALSE)

parameter_instance_for_parameter_block(parameter_block, index_in_block) ==
    LET id == ToId(parameter_block, ParameterBlocks)
    IN  IF Raised(id) THEN id
        ELSE IF id.val \notin Ids(ParameterBlocks)
        THEN Raise("TMTCModelQueryError", "Parameter Block not present in deployment")
        ELSE Ret([full |-> GetById(ParameterBlocks, id.val).full, shortLen |-> 1,
                  id |-> id.val + index_in_block,
                  definition |-> BlockElementDefinition])

action_instance(action) ==
    LET id == ToId(action, Actions)
    IN  IF Raised(id) THEN id
        ELSE IF id.val \notin Ids(Actions)
        THEN Raise("TMTCModelQueryError", "Action not present in deployment")
        ELSE Ret(GetById(Actions, id.val))

id_to_onboard_exception_name(exception_id) == _id_to_name(exception_id, Exceptions)

\* OBSWExceptionError(code, name, description), or what the lookups raise
OBSWExceptionError(exception_code) ==
    LET exception_name == id_to_onboard_exception_name(exception_code)
    IN  IF Raised(exception_name) THEN exception_name
        ELSE RaiseWith("OBSWExceptionError", "",
                       [code |-> exception_code, name |-> exception_name.val,
                        description |->
                            GetById(Exceptions, exception_code).description])

-----------------------------------------------------------------------------
(* The collaborator's answers to a request *)

Answer(kind, code, rows) == [kind |-> kind, code |-> code, rows |-> rows]

\* Py4JJavaError carrying a Java exception of the given class
JavaErrors ==
    { Answer("SyncCommandException", c, <<>>) : c \in ExcCodes } \cup
    { Answer(k, 0, <<>>) : k \in {"CommandException", "TransferException",
                                  "OtherJavaException"} }

\* Py4JError that is not a Py4JJavaError (the gateway itself failed)
GatewayError == Answer("Py4JError", 0, <<>>)

Failures == JavaErrors \cup {GatewayError}

\* __handle_command_exception(e): it always raises
handle_command_exception(e) ==
    CASE e.kind = "SyncCommandException" -> OBSWExceptionError(e.code)
      [] e.kind = "CommandException" ->
            Raise("TMTCCommandError", "OBSW instance may not be reachable")
      [] e.kind = "TransferException" -> Raise("TMTCTransferError", "")
      [] OTHER -> Raise("Py4JJavaError", "")

IsJavaError(answer) == answer \in JavaErrors

-----------------------------------------------------------------------------
(* The session *)

TMListeners == {"event", "debug", "hk"}

\* @_requires_tmtc_connection
\* The decorator left out: every call goes through
AlwaysConnected(handler) == TRUE

_requires_tmtc_connection(handler) == handler # "None"

TMTCDisconnected == Raise("TMTCDisconnected", "please run connect() first")

Request(call, id, first_row, last_row, resize, data) ==
    [call |-> call, id |-> id, first_row |-> first_row, last_row |-> last_row,
     resize |-> resize, data |-> data]

\* The row of a request that carries none
NoRow == 0 - 1

\* The end of a command that ran: what it sent and how it ended
Done(op, args, sent, result) ==
    /\ last' = [op |-> op, args |-> args, result |-> result]
    /\ requests' = sent
    /\ UNCHANGED <<namesVars, telemetryVars, asideVars, sessionVars, transferVars>>

\* A command refused by the decorator
Refused(op, args) ==
    /\ last' = [op |-> op, args |-> args, result |-> TMTCDisconnected]
    /\ requests' = <<>>
    /\ UNCHANGED <<namesVars, telemetryVars, asideVars, sessionVars, transferVars>>

\* The guard of connect left out: a link is opened at every call
ConnectsAgain(handler) == TRUE

\* if self._command_handler is None
NotYetConnected(handler) == handler = "None"

\* The body of connect(), called as `op` (connect itself, or __enter__)
Connecting(op, link_ok) ==
    /\ pc = "idle"
    /\ IF NotYetConnected(command_handler)
       THEN IF link_ok
            THEN /\ command_handler' = "handler"
                 /\ j_link' = "connected"
                 /\ handler_listeners' = [l \in TMListeners |-> 1]
                 /\ last' = [op |-> op, args |-> NoArgs, result |-> Ret(PyNone)]
            ELSE /\ j_link' = "created"
                 /\ last' = [op |-> op, args |-> NoArgs,
                             result |-> Raise("Py4JJavaError", "connect failed")]
                 /\ UNCHANGED <<command_handler, handler_listeners>>
       ELSE /\ last' = [op |-> op, args |-> NoArgs, result |-> Ret(PyNone)]
            /\ UNCHANGED sessionVars
    /\ requests' = <<>>
    /\ UNCHANGED <<namesVars, telemetryVars, codec, event, transferVars>>

connect(link_ok) ==
    /\ Connecting("connect", link_ok)
    /\ UNCHANGED with_block

\* The body of disconnect(), decorator included, called as `op` (disconnect
\* itself, or __exit__)
Disconnecting(op) ==
    /\ pc = "idle"
    /\ IF _requires_tmtc_connection(command_handler)
       THEN /\ handler_listeners' = [l \in TMListeners |-> 0]
            /\ command_handler' = "None"
            /\ j_link' = "None"
            /\ last' = [op |-> op, args |-> NoArgs, result |-> Ret(PyNone)]
       ELSE /\ last' = [op |-> op, args |-> NoArgs, result |-> TMTCDisconnected]
            /\ UNCHANGED sessionVars
    /\ requests' = <<>>
    /\ UNCHANGED <<namesVars, telemetryVars, codec, event, transferVars>>

disconnect ==
    /\ Disconnecting("disconnect")
    /\ UNCHANGED with_block

\* An __enter__ that swallows what connect() raises
BodyEnteredAnyway(handler, link_ok) == TRUE

\* __enter__ returns self, and the body starts, unless connect() raised
BodyEntered(handler, link_ok) == ~(NotYetConnected(handler) /\ ~link_ok)

\* with TMTCPy4j(...) as tmtc: __enter__ calls connect()
enter(link_ok) ==
    /\ with_block # "body"
    /\ Connecting("__enter__", link_ok)
    /\ with_block' = IF BodyEntered(command_handler, link_ok)
                     THEN "body"
                     ELSE with_block

\* The body is left, by its end or by an exception: __exit__(*args) calls
\* disconnect()
exit ==
    /\ with_block = "body"
    /\ Disconnecting("__exit__")
    /\ with_block' = "left"

-----------------------------------------------------------------------------
(* query, get, set, invoke *)

\* The instance a command addresses when index_in_block decides by truth
\* value (query) or by presence (get, set, uplink, downlink)
TargetByTruth(parameter, index_in_block) ==
    IF OptTruthy(index_in_block)
    THEN parameter_instance_for_parameter_block(parameter, index_in_block[1])
    ELSE parameter_instance(parameter)

TargetByPresence(parameter, index_in_block) ==
    IF IsGiven(index_in_block)
    THEN parameter_instance_for_parameter_block(parameter, index_in_block[1])
    ELSE parameter_instance(parameter)

query(parameter, index_in_block, answer) ==
    LET args == [parameter |-> parameter, index_in_block |-> index_in_block]
        inst == TargetByTruth(parameter, index_in_block)
        sent == <<Request("queryParameter", inst.val.id, NoRow, NoRow, FALSE, <<>>)>>
    IN  /\ pc = "idle"
        /\ IF ~_requires_tmtc_connection(command_handler)
           THEN Refused("query", args)
           ELSE IF Raised(inst)
           THEN Done("query", args, <<>>, inst)
           ELSE IF answer.kind = "ok"
           THEN Done("query", args, sent,
                     Ret([size |-> Len(answer.rows) * inst.val.definition.bytes_per_row,
                          length |-> Len(answer.rows)]))
           ELSE IF IsJavaError(answer)
           THEN Done("query", args, sent, handle_command_exception(answer))
           ELSE Done("query", args, sent, Raise("Py4JError", ""))

get(parameter, first_row, last_row0, index_in_block, resize0, answer) ==
    LET args == [parameter |-> parameter, first_row |-> first_row,
                 last_row |-> last_row0, index_in_block |-> index_in_block,
                 resize |-> resize0]
        inst == TargetByPresence(parameter, index_in_block)
        param_def == inst.val.definition
        last_row == IF IsGiven(last_row0) THEN last_row0[1]
                    ELSE param_def.max_rows - 1
        resize == IF IsGiven(last_row0) THEN resize0 ELSE TRUE
        sent == IF first_row = last_row
                THEN <<Request("getParameter/3", inst.val.id, first_row, NoRow,
                               FALSE, <<>>)>>
                ELSE <<Request("getParameter/5", inst.val.id, first_row, last_row,
                               resize, <<>>)>>
    IN  /\ pc = "idle"
        /\ IF ~_requires_tmtc_connection(command_handler)
           THEN Refused("get", args)
           ELSE IF Raised(inst)
           THEN Done("get", args, <<>>, inst)
           ELSE IF first_row > last_row
           THEN Done("get", args, <<>>,
                     Raise("ValueError", "first_row cannot be greater than last_row"))
           ELSE IF answer.kind = "ok"
           THEN /\ Len(answer.rows) >= 1
                /\ \A i \in 1..Len(answer.rows) :
                       Len(answer.rows[i]) = param_def.bytes_per_row
                /\ IF first_row = last_row
                   THEN Done("get", args, sent,
                             Ret(_from_gen1_type(answer.rows[1], param_def)))
                   ELSE Done("get", args, sent,
                             Ret(PyList([i \in 1..Len(answer.rows) |->
                                     _from_gen1_type(answer.rows[i], param_def)])))
           ELSE IF IsJavaError(answer)
           THEN Done("get", args, sent, handle_command_exception(answer))
           \* except Py4JError: logged, and get returns None
           ELSE Done("get", args, sent, Ret(PyNone))

\* One encoded row per element, or the first failure of an encoding
AppendRow(head, tail) ==
    IF Raised(head) THEN head
    ELSE IF Raised(tail) THEN tail
    ELSE Ret(<<head.val>> \o tail.val)

RECURSIVE EncodeRows(_, _, _)
EncodeRows(rows, definition, validate_len) ==
    IF rows = <<>> THEN Ret(<<>>)
    ELSE AppendRow(_to_gen1_type(Head(rows), definition, validate_len),
                   EncodeRows(Tail(rows), definition, validate_len))

\* The rows that set converts the value to, by type class
SetData(value, definition, index_in_block) ==
    IF definition.type_class = "var_raw"
    THEN EncodeRows(<<value>>, definition, FALSE)
    ELSE IF definition.type_class \in {"value", "fixed_raw"}
    THEN IF IsIterable(value)
         THEN Raise("TypeError", "Cannot accept iterable for type class")
         ELSE EncodeRows(<<value>>, definition, FALSE)
    ELSE IF definition.type_class \in {"fixed_vector", "var_vector"}
    THEN EncodeRows(IF IsIterable(value) THEN RowsOf(value) ELSE <<value>>,
                    definition,
                    IF OptTruthy(index_in_block) THEN FALSE ELSE TRUE)
    ELSE Raise("NotImplementedError", "Unknown parameter TypeClass")

\* if param_inst.definition.is_read_only: raise AttributeError
\* The read-only check left out
AcceptsReadOnly(definition) == FALSE

RejectsReadOnly(definition) == definition.is_read_only

set(parameter, value, first_row, index_in_block, resize, answer) ==
    LET args == [parameter |-> parameter, value |-> value, first_row |-> first_row,
                 index_in_block |-> index_in_block, resize |-> resize]
        param_inst == TargetByPresence(parameter, index_in_block)
        data == SetData(value, param_inst.val.definition, index_in_block)
        sent == <<Request("setParameter", param_inst.val.id, first_row, NoRow,
                          resize, data.val)>>
    IN  /\ pc = "idle"
        /\ IF ~_requires_tmtc_connection(command_handler)
           THEN Refused("set", args)
           ELSE IF Raised(param_inst)
           THEN Done("set", args, <<>>, param_inst)
           ELSE IF RejectsReadOnly(param_inst.val.definition)
           THEN Done("set", args, <<>>,
                     Raise("AttributeError", "Cannot set read-only parameter"))
           ELSE IF Raised(data)
           THEN Done("set", args, <<>>, data)
           ELSE IF answer.kind = "ok"
           THEN Done("set", args, sent, Ret(PyNone))
           ELSE IF IsJavaError(answer)
           THEN Done("set", args, sent, handle_command_exception(answer))
           ELSE Done("set", args, sent, Raise("Py4JError", ""))

\* The type description invoke makes up for an action's argument
ArgumentDefinition(arg_details) ==
    ParameterDefinition("raw",
                        IF arg_details.is_fixed_size THEN "fixed_raw" ELSE "var_raw",
                        arg_details.min_bytes, arg_details.max_bytes,
                        8 * arg_details.min_bytes, arg_details.min_bytes, FALSE)

invoke(action, argument, answer) ==
    LET args == [action |-> action, argument |-> argument]
        action_inst == action_instance(action)
        provided_arguments_count == IF argument.k = "None" THEN 0 ELSE 1
        required_arguments_count == Len(action_inst.val.arguments)
        encoded == _to_gen1_type(argument,
                                 ArgumentDefinition(action_inst.val.arguments[1]),
                                 FALSE)
        sent == IF Truthy(argument)
                THEN <<Request("invokeAction/3", action_inst.val.id, NoRow, NoRow,
                               FALSE, <<encoded.val>>)>>
                ELSE <<Request("invokeAction/2", action_inst.val.id, NoRow, NoRow,
                               FALSE, <<>>)>>
    IN  /\ pc = "idle"
        /\ IF ~_requires_tmtc_connection(command_handler)
           THEN Refused("invoke", args)
           ELSE IF Raised(action_inst)
           THEN Done("invoke", args, <<>>, action_inst)
           ELSE IF provided_arguments_count # required_arguments_count
           THEN Done("invoke", args, <<>>,
                     Raise("TMTCCommandError", "expects argument(s)"))
           ELSE IF Truthy(argument) /\ Raised(encoded)
           THEN Done("invoke", args, <<>>, encoded)
           ELSE IF answer.kind = "ok"
           THEN Done("invoke", args, sent, Ret(PyNone))
           ELSE IF IsJavaError(answer)
           THEN Done("invoke", args, sent, handle_command_exception(answer))
           ELSE Done("invoke", args, sent, Raise("Py4JError", ""))

-----------------------------------------------------------------------------
(* Transfers: the calling thread inside uplink/downlink, the collaborator's *)
(* transfer, and the transfer listener it notifies on its own thread.       *)

\* queue.Queue(maxsize=1)
QueueMaxSize == 1

Running == [err |-> "running", msg |-> "", val |-> PyNone]

\* kind            "uplink" or "downlink" ("none" before the first transfer)
\* staging_file    whether the staging file exists on disk
\* staging_created whether it has existed at any time in this transfer
\* j_state/j_error the collaborator's transfer: its state and getError()
\* timed_out       the caller's wait ended with queue.Empty
\* notify_pending  abort() changed the state and the listener is yet to hear
\* abort_calls     calls of the transfer's abort()
\* puts            outcomes the listener has put on the completion queue
\* blocked         the outcome a listener blocked in put() is holding
\* outcome         how the call ended for the caller ("running" until then)
NoTransfer ==
    [kind |-> "none", staging_file |-> FALSE, staging_created |-> FALSE,
     j_state |-> "none", j_error |-> 0, timed_out |-> FALSE,
     notify_pending |-> FALSE,
     abort_calls |-> 0, puts |-> 0, blocked |-> <<>>, outcome |-> Running]

\* The transfer as the collaborator hands it back
NewTransfer(kind, file) ==
    [NoTransfer EXCEPT !.kind = kind, !.staging_file = file,
                       !.staging_created = file, !.j_state = "Pending"]

\* A call that ended before any transfer was under way
EndedTransfer(kind, file, result) ==
    [NoTransfer EXCEPT !.kind = kind, !.staging_file = file,
                       !.staging_created = file, !.outcome = result]

\* The finally clause left out: the file stays
uplink_without_finally(t) == t

\* uplink's finally clause: os.remove(tempfile_name)
uplink_finally(t) == [t EXCEPT !.staging_file = FALSE]

\* transfer.isInProgress()
isInProgress(j_state) == j_state = "InProgress"

IsLive(j_state) == j_state \in {"Pending", "InProgress"}

\* A call of uplink/downlink that starts no transfer
TransferCallEnds(op, args, sent, ended) ==
    /\ last' = [op |-> op, args |-> args, result |-> ended.outcome]
    /\ requests' = sent
    /\ transfer' = ended
    /\ completion_q' = <<>>
    /\ UNCHANGED <<namesVars, telemetryVars, asideVars, sessionVars, pc>>

\* A call of uplink/downlink whose transfer the collaborator accepted
TransferCallWaits(op, args, sent, started) ==
    /\ last' = [op |-> op, args |-> args, result |-> Running]
    /\ requests' = sent
    /\ transfer' = started
    /\ completion_q' = <<>>
    /\ pc' = "wait"
    /\ UNCHANGED <<namesVars, telemetryVars, asideVars, sessionVars>>

uplink(parameter, data, first_row, index_in_block, resize, answer) ==
    LET args == [parameter |-> parameter, data |-> data, first_row |-> first_row,
                 index_in_block |-> index_in_block, resize |-> resize]
        parameter_instance_ == TargetByPresence(parameter, index_in_block)
        parameter_type == parameter_instance_.val.definition
        last_row == (first_row + Len(data) \div parameter_type.bytes_per_row) - 1
        sent == <<Request("uplinkParameter", parameter_instance_.val.id, first_row,
                          last_row, resize, data)>>
    IN  /\ pc = "idle"
        /\ IF ~_requires_tmtc_connection(command_handler)
           THEN Refused("uplink", args)
           ELSE IF Raised(parameter_instance_)
           THEN TransferCallEnds("uplink", args, <<>>,
                                 EndedTransfer("uplink", FALSE, parameter_instance_))
           ELSE IF parameter_type.is_read_only
           THEN TransferCallEnds("uplink", args, <<>>,
                    EndedTransfer("uplink", FALSE,
                        Raise("AttributeError", "Cannot set read-only parameter")))
           \* the temporary file is written; then uplinkParameter is called and
           \* the finally clause removes the file when the call fails
           ELSE IF answer.kind = "ok"
           THEN TransferCallWaits("uplink", args, sent, NewTransfer("uplink", TRUE))
           ELSE IF IsJavaError(answer)
           THEN TransferCallEnds("uplink", args, sent,
                    uplink_finally(EndedTransfer("uplink", TRUE,
                                                 handle_command_exception(answer))))
           ELSE TransferCallEnds("uplink", args, sent,
                    uplink_finally(EndedTransfer("uplink", TRUE,
                                                 Raise("Py4JError", ""))))

downlink(parameter, first_row, last_row0, index_in_block, resize0, answer) ==
    LET args == [parameter |-> parameter, first_row |-> first_row,
                 last_row |-> last_row0, index_in_block |-> index_in_block,
                 resize |-> resize0]
        parameter_instance_ == TargetByPresence(parameter, index_in_block)
        parameter_type == parameter_instance_.val.definition
        last_row == IF IsGiven(last_row0) THEN last_row0[1]
                    ELSE parameter_type.max_rows - 1
        resize == IF IsGiven(last_row0) THEN resize0 ELSE TRUE
        sent == <<Request("downlinkParameter", parameter_instance_.val.id,
                          first_row, last_row, resize,
                          <<parameter_type.bytes_per_row>>)>>
    IN  /\ pc = "idle"
        /\ IF ~_requires_tmtc_connection(command_handler)
           THEN Refused("downlink", args)
           ELSE IF Raised(parameter_instance_)
           THEN TransferCallEnds("downlink", args, <<>>,
                                 EndedTransfer("downlink", FALSE, parameter_instance_))
           ELSE IF first_row > last_row
           THEN TransferCallEnds("downlink", args, <<>>,
                    EndedTransfer("downlink", FALSE,
                        Raise("ValueError", "first_row cannot be greater than last_row")))
           \* only a file name is made up here; downlinkParameter is called
           \* outside the try statement, so its errors propagate as they are
           ELSE IF answer.kind = "ok"
           THEN TransferCallWaits("downlink", args, sent,
                                  NewTransfer("downlink", FALSE))
           ELSE IF IsJavaError(answer)
           THEN TransferCallEnds("downlink", args, sent,
                    EndedTransfer("downlink", FALSE, Raise("Py4JJavaError", "")))
           ELSE TransferCallEnds("downlink", args, sent,
                    EndedTransfer("downlink", FALSE, Raise("Py4JError", "")))

\* The call returns or raises: the caller has its outcome, and the transfer
\* is left as `t`
Returns(result, t) ==
    /\ transfer' = [t EXCEPT !.outcome = result]
    /\ last' = [last EXCEPT !.result = result]
    /\ pc' = "idle"

\* raise TMTCTransferError(...) from OBSWExceptionError(code, name, description)
TransferFailure(exception_code) ==
    LET cause == OBSWExceptionError(exception_code)
    IN  IF cause.err = "OBSWExceptionError"
        THEN RaiseWith("TMTCTransferError", "Exception occurred during transfer",
                       cause.val)
        ELSE cause

\* downlink after the wait: the file is read, then removed
downlink_read(t) ==
    IF t.staging_file
    THEN Returns(Ret(PyBytes(<<>>)), [t EXCEPT !.staging_file = FALSE])
    ELSE Returns(Raise("FileNotFoundError", "open"), t)

\* completion_q.get(timeout=...) hands over an outcome
completion_get ==
    /\ pc = "wait"
    /\ completion_q # <<>>
    /\ completion_q' = Tail(completion_q)
    /\ IF transfer.kind = "uplink"
       THEN IF Head(completion_q) # 0
            THEN Returns(TransferFailure(Head(completion_q)), uplink_finally(transfer))
            ELSE Returns(Ret(PyNone), uplink_finally(transfer))
       ELSE IF Head(completion_q) # 0
            THEN Returns(TransferFailure(Head(completion_q)), transfer)
            ELSE downlink_read(transfer)
    /\ UNCHANGED <<namesVars, telemetryVars, asideVars, sessionVars, requests>>

\* completion_q.get(timeout=...) raises queue.Empty
completion_timeout ==
    /\ pc = "wait"
    /\ completion_q = <<>>
    /\ pc' = "timed_out"
    /\ transfer' = [transfer EXCEPT !.timed_out = TRUE]
    /\ UNCHANGED <<namesVars, telemetryVars, asideVars, sessionVars, requests, last, completion_q>>

\* j_transfer.abort(), as the collaborator takes it
Aborted(t) ==
    [t EXCEPT !.abort_calls = @ + 1,
              !.j_state = IF IsLive(t.j_state) THEN "Aborted" ELSE @,
              !.notify_pending = IF IsLive(t.j_state) THEN TRUE ELSE @]

\* uplink, except queue.Empty: abort, raise, and the finally clause
uplink_timed_out ==
    /\ pc = "timed_out"
    /\ transfer.kind = "uplink"
    /\ LET result == Raise("TMTCTransferError", "Transfer timed out (transfer aborted)")
       IN  Returns(result, uplink_finally(Aborted(transfer)))
    /\ UNCHANGED <<namesVars, telemetryVars, asideVars, sessionVars, requests, completion_q>>

\* downlink, except queue.Empty: first os.remove(downlinked_data_filename)
downlink_timed_out_remove ==
    /\ pc = "timed_out"
    /\ transfer.kind = "downlink"
    /\ IF transfer.staging_file
       THEN /\ transfer' = [transfer EXCEPT !.staging_file = FALSE]
            /\ pc' = "removed"
            /\ UNCHANGED last
       ELSE Returns(Raise("FileNotFoundError", "os.remove"), transfer)
    /\ UNCHANGED <<namesVars, telemetryVars, asideVars, sessionVars, requests, completion_q>>

\* downlink, except queue.Empty: then transfer.abort() and the raise
downlink_timed_out_abort ==
    /\ pc = "removed"
    /\ LET result == Raise("TMTCTransferError", "Transfer timed out")
       IN  Returns(result, Aborted(transfer))
    /\ UNCHANGED <<namesVars, telemetryVars, asideVars, sessionVars, requests, completion_q>>

\* _TransferListener.stateChanged: the condition under which it enqueues
NotifiesCompletion(j_state, j_error) == ~isInProgress(j_state) \/ j_error # 0

\* _TransferListener.stateChanged(transfer, ...) run on the collaborator's
\* thread after the transfer became `t`: completion_queue.put(getError())
\* blocks while the queue is full.
stateChanged(t) ==
    /\ IF NotifiesCompletion(t.j_state, t.j_error)
       THEN IF Len(completion_q) < QueueMaxSize
            THEN /\ completion_q' = Append(completion_q, t.j_error)
                 /\ transfer' = [t EXCEPT !.puts = @ + 1]
            ELSE /\ transfer' = [t EXCEPT !.blocked = <<t.j_error>>]
                 /\ UNCHANGED completion_q
       ELSE /\ transfer' = t
            /\ UNCHANGED completion_q
    /\ UNCHANGED <<namesVars, telemetryVars, asideVars, sessionVars, requests, last, pc>>

\* The collaborator's thread is free to make a step of the transfer
CollaboratorRuns == transfer.kind # "none" /\ transfer.blocked = <<>>

collab_start ==
    /\ CollaboratorRuns
    /\ transfer.j_state = "Pending"
    /\ stateChanged([transfer EXCEPT !.j_state = "InProgress"])

\* An error is recorded while the transfer is still in progress
collab_error(code) ==
    /\ CollaboratorRuns
    /\ transfer.j_state = "InProgress"
    /\ transfer.j_error = 0
    /\ stateChanged([transfer EXCEPT !.j_error = code])

\* The transfer completes; a downlink's data is in its file by then
collab_complete ==
    /\ CollaboratorRuns
    /\ transfer.j_state = "InProgress"
    /\ transfer.j_error = 0
    /\ stateChanged([transfer EXCEPT
           !.j_state = "Completed",
           !.staging_file = IF transfer.kind = "downlink" THEN TRUE ELSE @,
           !.staging_created = IF transfer.kind = "downlink" THEN TRUE ELSE @])

collab_fail(code) ==
    /\ CollaboratorRuns
    /\ IsLive(transfer.j_state)
    /\ stateChanged([transfer EXCEPT
           !.j_state = "Failed",
           !.j_error = IF transfer.j_error # 0 THEN @ ELSE code])

\* The collaborator writes received rows to the downlink's file
collab_write ==
    /\ CollaboratorRuns
    /\ transfer.kind = "downlink"
    /\ transfer.j_state = "InProgress"
    /\ ~transfer.staging_file
    /\ transfer' = [transfer EXCEPT !.staging_file = TRUE, !.staging_created = TRUE]
    /\ UNCHANGED <<namesVars, telemetryVars, asideVars, sessionVars, requests, last, pc, completion_q>>

\* The listener hears of the state change that abort() made
collab_aborted ==
    /\ CollaboratorRuns
    /\ transfer.notify_pending
    /\ stateChanged([transfer EXCEPT !.notify_pending = FALSE])

\* A listener blocked in put() goes on once the queue has room
listener_resumes ==
    /\ transfer.blocked # <<>>
    /\ Len(completion_q) < QueueMaxSize
    /\ completion_q' = Append(completion_q, transfer.blocked[1])
    /\ transfer' = [transfer EXCEPT !.puts = @ + 1, !.blocked = <<>>]
    /\ UNCHANGED <<namesVars, telemetryVars, asideVars, sessionVars, requests, last, pc>>

-----------------------------------------------------------------------------
(* _TMListener: the registry of telemetry subscribers and notify() *)

\* The size the subscribed queue was made with
TMQueueMaxSize == 1

\* The subscribers a program registers: a callable that returns, one that
\* unregisters itself when called, one that registers "callback" when called,
\* one that raises, and a queue.Queue
Callables == {"callback", "leaver", "adder", "raiser"}

Subscribers == Callables \cup {"hk_queue"}

\* What a raising callable lets escape: its own exception, or, when that is
\* a TypeError, the AttributeError of put_nowait on a function
CallableErrors == {"ValueError", "AttributeError"}

NotNotifying ==
    [state |-> "idle", snapshot |-> {}, delivered |-> <<>>, by |-> "none",
     error |-> "none"]

\* No subscriber, no notification
Quiet ==
    /\ listeners = {}
    /\ notifying = NotNotifying
    /\ tm_queue = <<>>

\* for listener in live registry: the registry itself, not a copy of it
LiveRegistry(snapshot, registry) == registry

\* for listener in self.listeners.copy(): the subscribers notify() goes
\* through are those of the copy made when it started
NotifyTargets(snapshot, registry) == snapshot

\* register(listener), from the program's thread
register(listener) ==
    /\ listeners' = listeners \cup {listener}
    /\ UNCHANGED <<notifying, tm_queue>>
    /\ UNCHANGED <<namesVars, sessionVars, requests, last, transferVars, asideVars>>

\* unregister(listener), from the program's thread; ValueError, and nothing
\* changed, when the listener is not registered
unregister(listener) ==
    /\ listeners' = listeners \ {listener}
    /\ UNCHANGED <<notifying, tm_queue>>
    /\ UNCHANGED <<namesVars, sessionVars, requests, last, transferVars, asideVars>>

\* notify(*args) starts: the snapshot is taken
notify_start ==
    /\ notifying.state # "delivering"
    /\ notifying' = [NotNotifying EXCEPT !.state = "delivering",
                                         !.snapshot = listeners]
    /\ UNCHANGED <<listeners, tm_queue>>
    /\ UNCHANGED <<namesVars, sessionVars, requests, last, transferVars, asideVars>>

\* The exception leaves notify(): the for loop is abandoned
NotifyRaises(listener, error) ==
    [notifying EXCEPT !.state = "raised", !.by = listener, !.error = error]

NotifyDelivers(listener) ==
    [notifying EXCEPT !.delivered = Append(@, listener)]

\* The subscribers the notify() in hand has called or enqueued to, in order
Delivered == { notifying.delivered[i] : i \in 1..Len(notifying.delivered) }

\* One turn of the loop: listener(*args), and put_nowait(args) on TypeError
notify_listener(listener, error) ==
    /\ notifying.state = "delivering"
    /\ listener \in NotifyTargets(notifying.snapshot, listeners) \ Delivered
    /\ CASE listener = "callback" ->
                /\ notifying' = NotifyDelivers(listener)
                /\ UNCHANGED <<listeners, tm_queue>>
         [] listener = "leaver" ->
                \* the callable calls unregister(itself)
                /\ IF listener \in listeners
                   THEN /\ listeners' = listeners \ {listener}
                        /\ notifying' = NotifyDelivers(listener)
                   ELSE /\ UNCHANGED listeners
                        /\ notifying' =
                             [NotifyRaises(listener, "ValueError")
                                EXCEPT !.delivered = Append(@, listener)]
                /\ UNCHANGED tm_queue
         [] listener = "adder" ->
                \* the callable calls register(callback)
                /\ listeners' = listeners \cup {"callback"}
                /\ notifying' = NotifyDelivers(listener)
                /\ UNCHANGED tm_queue
         [] listener = "raiser" ->
                /\ notifying' = [NotifyRaises(listener, error)
                                   EXCEPT !.delivered = Append(@, listener)]
                /\ UNCHANGED <<listeners, tm_queue>>
         [] listener = "hk_queue" ->
                \* a Queue is not callable: TypeError, then put_nowait
                /\ IF Len(tm_queue) < TMQueueMaxSize
                   THEN /\ tm_queue' = Append(tm_queue, "args")
                        /\ notifying' = NotifyDelivers(listener)
                   ELSE /\ UNCHANGED tm_queue
                        /\ notifying' = NotifyRaises(listener, "Full")
                /\ UNCHANGED listeners
    /\ UNCHANGED <<namesVars, sessionVars, requests, last, transferVars, asideVars>>

\* The loop has gone through its snapshot: notify() returns
notify_return ==
    /\ notifying.state = "delivering"
    /\ NotifyTargets(notifying.snapshot, listeners) \ Delivered = {}
    /\ notifying' = [notifying EXCEPT !.state = "returned"]
    /\ UNCHANGED <<listeners, tm_queue>>
    /\ UNCHANGED <<namesVars, sessionVars, requests, last, transferVars, asideVars>>

\* The program takes a notification from its queue
tm_queue_get ==
    /\ tm_queue # <<>>
    /\ tm_queue' = Tail(tm_queue)
    /\ UNCHANGED <<listeners, notifying>>
    /\ UNCHANGED <<namesVars, sessionVars, requests, last, transferVars, asideVars>>

-----------------------------------------------------------------------------
(* The session as a state machine *)

\* Nothing has been encoded or decoded
NoCodec == [op |-> "none"]

\* The gateway has handed over no event
NoEvent == [op |-> "none"]

\* No name has been looked up
NoLookup == [op |-> "none", arg |-> <<>>, result |-> Ret(0)]

\* A session that has not been used
Unused ==
    /\ command_handler = "None"
    /\ j_link = "None"
    /\ handler_listeners = [l \in TMListeners |-> 0]
    /\ requests = <<>>
    /\ last = [op |-> "none", args |-> NoArgs, result |-> Ret(PyNone)]
    /\ pc = "idle"
    /\ transfer = NoTransfer
    /\ completion_q = <<>>

\* What a command is aimed at: a parameter, or a block and an index in it
Targets ==
    { <<PyInt(0), <<>>>>, <<PyInt(1), <<>>>>, <<PyInt(2), <<>>>>,
      <<PyInt(AbsentId), <<>>>>, <<PyInt(20), <<1>>>>, <<PyInt(20), <<0>>>> }

TableTargets ==
    { <<PyInt(2), <<>>>>, <<PyStr(<<"stx", "table">>), <<>>>>, <<PyInt(20), <<1>>>> }

SetValues ==
    { PyInt(1), PyBytes(<<1, 2>>), PyList(<<PyBytes(<<1, 2>>), PyBytes(<<3, 4>>)>>) }

ActionArgs ==
    { PyInt(0), PyInt(1), PyInt(2), PyInt(AbsentId), PyStr(<<"obc", "reset">>) }

ArgumentValues == { PyNone, PyInt(0), PyBytes(<<1, 2>>) }

Ok == Answer("ok", 0, <<>>)

\* Rows a get may be answered with: one or two rows of one or two bytes
OkRows ==
    { Answer("ok", 0, [i \in 1..n |-> [j \in 1..w |-> 255]]) :
        n \in 1..2, w \in 1..2 }

\* The ways a request is seen to fail
SomeFailures == { Answer("SyncCommandException", 1, <<>>), GatewayError }

UplinkData == { <<7, 7, 7, 7>> }

Init ==
    /\ db = <<>>
    /\ name_lookup_tree = Dict(<<>>)
    /\ lookup = NoLookup
    /\ Unused
    /\ Quiet
    /\ codec = NoCodec
    /\ with_block = "outside"
    /\ event = NoEvent

Next ==
    \/ \E link_ok \in BOOLEAN : connect(link_ok)
    \/ disconnect
    \/ \E target \in Targets, answer \in {Answer("ok", 0, <<<<255>>>>)} \cup SomeFailures :
          query(target[1], target[2], answer)
    \/ \E target \in TableTargets \cup {<<PyInt(0), <<>>>>}, last_row \in {<<>>, <<1>>},
          answer \in OkRows \cup SomeFailures :
          get(target[1], 0, last_row, target[2], FALSE, answer)
    \/ \E target \in Targets \cup TableTargets, value \in SetValues,
          answer \in {Ok} \cup SomeFailures :
          set(target[1], value, 0, target[2], FALSE, answer)
    \/ \E action \in ActionArgs, argument \in ArgumentValues,
          answer \in {Ok} \cup SomeFailures :
          invoke(action, argument, answer)
    \/ \E target \in TableTargets, data \in UplinkData,
          answer \in {Ok} \cup Failures :
          uplink(target[1], data, 0, target[2], FALSE, answer)
    \/ \E target \in TableTargets, last_row \in {<<>>, <<1>>},
          answer \in {Ok} \cup SomeFailures :
          downlink(target[1], 0, last_row, target[2], FALSE, answer)
    \/ completion_get
    \/ completion_timeout
    \/ uplink_timed_out
    \/ downlink_timed_out_remove
    \/ downlink_timed_out_abort
    \/ collab_start
    \/ \E code \in ExcCodes : collab_error(code)
    \/ collab_complete
    \/ \E code \in ExcCodes : collab_fail(code)
    \/ collab_write
    \/ collab_aborted
    \/ listener_resumes

Spec == Init /\ [][Next]_vars

-----------------------------------------------------------------------------
(* The resolver as a state machine: a database is loaded, then queried. *)

InitNames ==
    /\ db \in Databases
    /\ name_lookup_tree = _init_name_lookup_tree(db)
    /\ lookup = NoLookup
    /\ Unused
    /\ Quiet
    /\ codec = NoCodec
    /\ with_block = "outside"
    /\ event = NoEvent

name_to_id(name) ==
    /\ lookup' = [op |-> "name_to_id", arg |-> name,
                  result |-> _name_to_id(name, db, name_lookup_tree)]
    /\ UNCHANGED <<db, name_lookup_tree>>
    /\ UNCHANGED <<sessionVars, requests, last, transferVars, telemetryVars, asideVars>>

id_to_name(id_) ==
    /\ lookup' = [op |-> "id_to_name", arg |-> <<id_>>,
                  result |-> _id_to_name(id_, db)]
    /\ UNCHANGED <<db, name_lookup_tree>>
    /\ UNCHANGED <<sessionVars, requests, last, transferVars, telemetryVars, asideVars>>

NextNames ==
    \/ \E name \in QueryPool : name_to_id(name)
    \/ \E id_ \in 0..MaxEntities : id_to_name(id_)

SpecNames == InitNames /\ [][NextNames]_vars

-----------------------------------------------------------------------------
(* The registry of subscribers as a state machine: the program registers and
   unregisters while telemetry is notified from the gateway's thread. *)

NextListeners ==
    \/ \E listener \in Subscribers : register(listener)
    \/ \E listener \in Subscribers : unregister(listener)
    \/ notify_start
    \/ \E listener \in Subscribers, error \in CallableErrors :
          notify_listener(listener, error)
    \/ notify_return
    \/ tm_queue_get

SpecListeners == Init /\ [][NextListeners]_vars

-----------------------------------------------------------------------------
(* Uplinks alone: data of several lengths handed to parameters of one and of
   two bytes per row, with the collaborator's transfer and its listener *)

\* Data of 1, 3 and 4 bytes
UplinkLengths == {1, 3, 4}

UplinkInputs == { [i \in 1..n |-> 7] : n \in UplinkLengths }

NextUplinks ==
    \/ \E link_ok \in BOOLEAN : connect(link_ok)
    \/ \E target \in TableTargets, data \in UplinkInputs,
          answer \in {Ok} \cup Failures :
          uplink(target[1], data, 0, target[2], FALSE, answer)
    \/ completion_get
    \/ completion_timeout
    \/ uplink_timed_out
    \/ collab_start
    \/ \E code \in ExcCodes : collab_error(code)
    \/ collab_complete
    \/ \E code \in ExcCodes : collab_fail(code)
    \/ collab_aborted
    \/ listener_resumes

SpecUplinks == Init /\ [][NextUplinks]_vars

-----------------------------------------------------------------------------
(* _EventListener: the gateway hands over an event, eventReceived splits the
   severity from the identifier and notifies the subscribers *)

\* The identifiers the gateway may hand over: the 16-bit ones and the first
\* one beyond them
EventIds == 0 .. Pow(2, 16)

EventSources == {1, 2}

EventInfos == { <<9>> }

\* The gateway is about to call eventReceived(event_id_with_severity, source, info)
Incoming(event_id_with_severity, source, info) ==
    [op |-> "incoming", event_id_with_severity |-> event_id_with_severity,
     source |-> source, info |-> info,
     args |-> [event_id |-> 0, severity |-> "none", source |-> 0, info |-> <<>>]]

\* The identifier passed on with its severity bits
KeepSeverityBits(x) == x

\* x & ~0xC000: bits 14 and 15 cleared
ClearSeverityBits(x) == x - ((x \div Pow(2, 14)) % 4) * Pow(2, 14)

\* event_severities[key]
event_severities(key) ==
    CASE key = 0 -> Ret("info")
      [] key = 1 -> Ret("error")
      [] key = 2 -> Ret("component_fatal")
      [] key = 3 -> Ret("system_fatal")
      [] OTHER -> Raise("KeyError", "")

\* eventReceived, with the notify() it ends in
eventReceived ==
    /\ event.op = "incoming"
    /\ notifying.state # "delivering"
    /\ IF Raised(event_severities(event.event_id_with_severity \div Pow(2, 14)))
       THEN /\ event' = [event EXCEPT !.op = "KeyError"]
            /\ UNCHANGED notifying
       ELSE /\ event' =
                  [event EXCEPT
                     !.op = "notified",
                     !.args = [event_id |-> ClearSeverityBits(
                                               event.event_id_with_severity),
                               severity |-> event_severities(
                                               event.event_id_with_severity
                                                  \div Pow(2, 14)).val,
                               source |-> event.source,
                               info |-> event.info]]
            /\ notifying' = [NotNotifying EXCEPT !.state = "delivering",
                                                 !.snapshot = listeners]
    /\ UNCHANGED <<listeners, tm_queue>>
    /\ UNCHANGED <<namesVars, sessionVars, requests, last, transferVars, codec,
                   with_block>>

InitEvents ==
    /\ db = <<>>
    /\ name_lookup_tree = Dict(<<>>)
    /\ lookup = NoLookup
    /\ Unused
    /\ Quiet
    /\ codec = NoCodec
    /\ with_block = "outside"
    /\ event \in { Incoming(x, source, info) :
                      x \in EventIds, source \in EventSources, info \in EventInfos }

NextEvents ==
    \/ eventReceived
    \/ notify_return

SpecEvents == InitEvents /\ [][NextEvents]_vars

-----------------------------------------------------------------------------
(* The life cycle of the session alone: connect and disconnect, called
   directly or by a with statement, while subscribers come and go *)

NextSession ==
    \/ \E link_ok \in BOOLEAN : connect(link_ok)
    \/ disconnect
    \/ \E link_ok \in BOOLEAN : enter(link_ok)
    \/ exit
    \/ \E listener \in Subscribers : register(listener)
    \/ \E listener \in Subscribers : unregister(listener)

SpecSession == Init /\ [][NextSession]_vars

-----------------------------------------------------------------------------
(* The type codec as a state machine: a value is encoded for a parameter
   type, and the row that comes out is decoded again. *)

\* The type description of an integer parameter
IntegerType(type_str, bits_per_row, bytes_per_row) ==
    ParameterDefinition(type_str, "value", 1, 1, bits_per_row, bytes_per_row, FALSE)

\* unsigned and bitfield in rows of 1, 2, 4 and 8 bytes, bitfields of a few
\* bits, and signed types of 8 to 31 bits in rows of 1, 2, 4 and 8 bytes
CodecTypes ==
    { IntegerType(ts, 8 * b, b) : ts \in {"unsigned", "bitfield"}, b \in {1, 2, 4, 8} }
    \cup { IntegerType("bitfield", 1, 1), IntegerType("bitfield", 3, 1) }
    \cup { IntegerType("signed", 8, 1), IntegerType("signed", 12, 2),
           IntegerType("signed", 16, 2), IntegerType("signed", 31, 4),
           IntegerType("signed", 31, 8) }

\* The exponents of the powers of two around which values are taken
Exponents == {0, 1, 3, 7, 8, 11, 15, 16, 30}

\* The ints at, just below and just above each power of two and its
\* negative, and the largest and the smallest int the model holds
CodecInts ==
    UNION { { Pow(2, e) - 1, Pow(2, e), Pow(2, e) + 1,
              0 - Pow(2, e) - 1, 0 - Pow(2, e), 1 - Pow(2, e) } : e \in Exponents }
    \cup { Pow(2, 30) - 1 + Pow(2, 30), 0 - Pow(2, 30) - Pow(2, 30) }

CodecValues ==
    { PyInt(n) : n \in CodecInts }
    \cup { PyStr(<<"a">>), PyFloat(1), PyBytes(<<1>>), PyNone }

\* _to_gen1_type(value, parameter_type)
encode(value, parameter_type) ==
    /\ codec' = [op |-> "encode", parameter_type |-> parameter_type,
                 value |-> value,
                 encoded |-> _to_gen1_type(value, parameter_type, FALSE),
                 decoded |-> PyNone]
    /\ UNCHANGED <<namesVars, sessionVars, requests, last, transferVars,
                   telemetryVars, with_block, event>>

\* _from_gen1_type(java_object, param_def) of the row just encoded
decode ==
    /\ codec.op = "encode"
    /\ ~Raised(codec.encoded)
    /\ codec' = [codec EXCEPT !.op = "decode",
                              !.decoded = _from_gen1_type(codec.encoded.val,
                                                          codec.parameter_type)]
    /\ UNCHANGED <<namesVars, sessionVars, requests, last, transferVars,
                   telemetryVars, with_block, event>>

NextCodec ==
    \/ \E value \in CodecValues, parameter_type \in CodecTypes :
          encode(value, parameter_type)
    \/ decode

SpecCodec == Init /\ [][NextCodec]_vars

-----------------------------------------------------------------------------
(* Rows of raw types through the encoder: the callers hand over a row and
   either say nothing about length checking or pass validate_len *)

RawType(type_class, bytes_per_row) ==
    ParameterDefinition("raw", type_class, 1, 1, 8 * bytes_per_row, bytes_per_row,
                        FALSE)

\* Rows below, at and above the size up to which CPython keeps one object
\* per int
RowSizes == {1, 2, 3, 257}

RawTypes ==
    { RawType(type_class, b) : type_class \in {"fixed_raw", "fixed_vector"},
                               b \in RowSizes }

RawValues ==
    { PyBytes([i \in 1..n |-> 7]) : n \in RowSizes \cup {0, 4} }

\* validate_len as the caller passes it: not at all, True or False
ValidateLenArgs == { <<>>, <<TRUE>>, <<FALSE>> }

\* validate_len=False in the signature
validate_len_or_default(validate_len) ==
    IF validate_len = <<>> THEN FALSE ELSE validate_len[1]

\* _to_gen1_type(row, parameter_type[, validate_len])
encode_row(value, parameter_type, validate_len) ==
    /\ codec' = [op |-> "encode_row", parameter_type |-> parameter_type,
                 value |-> value, validate_len |-> validate_len,
                 encoded |-> _to_gen1_type(value, parameter_type,
                                           validate_len_or_default(validate_len))]
    /\ UNCHANGED <<namesVars, sessionVars, requests, last, transferVars,
                   telemetryVars, with_block, event>>

NextRows ==
    \E value \in RawValues, parameter_type \in RawTypes,
       validate_len \in ValidateLenArgs :
          encode_row(value, parameter_type, validate_len)

SpecRows == Init /\ [][NextRows]_vars

-----------------------------------------------------------------------------
(* Properties of the session and the transfers, checked under Spec *)

CommandOps == {"query", "get", "set", "invoke", "uplink", "downlink"}

\* The parameter a call was aimed at exists and is read-only
TargetIsReadOnly(args) ==
    /\ ~Raised(TargetByPresence(args.parameter, args.index_in_block))
    /\ TargetByPresence(args.parameter, args.index_in_block).val.definition.is_read_only

\* C1: a set aimed at a read-only parameter fails, whatever the value, and
\* sends no setParameter request to the collaborator.
C1_ReadOnlySetSendsNothing ==
    (last.op = "set" /\ TargetIsReadOnly(last.args))
        => /\ last.result.err \in {"AttributeError", "TMTCDisconnected"}
           /\ requests = <<>>

\* C1 happens: a connected session refused to set a read-only parameter
C1_Witness ==
    /\ command_handler # "None"
    /\ last.op = "set"
    /\ TargetIsReadOnly(last.args)
    /\ last.result.err = "AttributeError"
    /\ last.args.value = PyInt(1)

\* C2: while the client is not connected, every query, get, set, invoke,
\* uplink and downlink fails with TMTCDisconnected, sends no request and
\* changes nothing of the client's state.
C2_DisconnectedRefuses ==
    [][(command_handler = "None" /\ last' # last /\ last'.op \in CommandOps)
          => /\ last'.result.err = "TMTCDisconnected"
             /\ requests' = <<>>
             /\ UNCHANGED <<namesVars, telemetryVars, asideVars, sessionVars, transferVars>>]_vars

\* C2 happens: after a transfer and a disconnect, an uplink was refused
C2_Witness ==
    /\ command_handler = "None"
    /\ last.op = "uplink"
    /\ last.result.err = "TMTCDisconnected"
    /\ transfer.kind = "downlink"
    /\ transfer.outcome.err = "none"

\* C6: when the wait of an uplink or a downlink times out, abort() is called
\* on the transfer exactly once and the call raises TMTCTransferError,
\* whatever the state of the staging file.
C6_TimeoutAbortsOnce ==
    (transfer.timed_out /\ transfer.outcome.err # "running")
        => /\ transfer.abort_calls = 1
           /\ transfer.outcome.err = "TMTCTransferError"

\* C7: when a downlink that waited returns or raises, its staging file no
\* longer exists.
C7_DownlinkLeavesNoFile ==
    [][(transfer.kind = "downlink" /\ pc # "idle" /\ pc' = "idle")
          => ~transfer'.staging_file]_vars

C9_OneOutcomePerTransfer ==
    transfer.puts <= 1 /\ transfer.blocked = <<>>

\* C10: the wait of an uplink or a downlink ends in a normal return exactly
\* when the outcome it takes from the queue carries no exception code; with
\* an exception code it raises TMTCTransferError from
\* OBSWExceptionError(code, name, description).
C10_OutcomeFollowsCode ==
    [][(pc = "wait" /\ pc' = "idle")
          => IF Head(completion_q) = 0
             THEN transfer'.outcome.err = "none"
             ELSE /\ transfer'.outcome.err = "TMTCTransferError"
                  /\ transfer'.outcome.val.code = Head(completion_q)]_vars

\* C15: an action invoked by its name on a connected session returns
\* 'pass' when the invocation succeeds.
C15_InvokeReturnsPass ==
    (last.op = "invoke" /\ last.args.action.k = "str" /\ last.result.err = "none")
        => last.result.val = PyStr(<<"pass">>)

\* The number of arguments a call of invoke supplied
Supplied(args) == IF args.argument.k = "None" THEN 0 ELSE 1

\* C16: an invoke that reaches its action sends no request and fails when
\* the number of arguments supplied differs from the number the action
\* declares, and sends exactly one invokeAction request when they match.
C16_InvokeArity ==
    (last.op = "invoke" /\ last.result.err # "TMTCDisconnected"
        /\ ~Raised(action_instance(last.args.action)))
        => IF Supplied(last.args)
                # Len(action_instance(last.args.action).val.arguments)
           THEN /\ last.result.err = "TMTCCommandError"
                /\ requests = <<>>
           ELSE /\ Len(requests) = 1
                /\ requests[1].call \in {"invokeAction/2", "invokeAction/3"}

\* C20: a get called without last_row asks the collaborator for the rows
\* first_row .. max_rows - 1 with resize set, whatever resize was passed.
C20_GetDefaultsToResize ==
    (last.op = "get" /\ ~IsGiven(last.args.last_row) /\ requests # <<>>)
        => /\ requests[1].first_row = last.args.first_row
           /\ requests[1].last_row =
                TargetByPresence(last.args.parameter,
                                 last.args.index_in_block).val.definition.max_rows - 1
           /\ requests[1].resize

\* The errors of the module that a failed command is reported with
TaxonomyErrors ==
    {"OBSWExceptionError", "TMTCCommandError", "TMTCCommandTimeout",
     "TMTCTransferError"}

\* The step is the command recorded in last', called with the arguments
\* recorded there and answered by the collaborator with `answer`
CommandAnswered(answer) ==
    LET a == last'.args
    IN  CASE last'.op = "query" -> query(a.parameter, a.index_in_block, answer)
          [] last'.op = "get" ->
                get(a.parameter, a.first_row, a.last_row, a.index_in_block,
                    a.resize, answer)
          [] last'.op = "set" ->
                set(a.parameter, a.value, a.first_row, a.index_in_block,
                    a.resize, answer)
          [] last'.op = "invoke" -> invoke(a.action, a.argument, answer)
          [] last'.op = "uplink" ->
                uplink(a.parameter, a.data, a.first_row, a.index_in_block,
                       a.resize, answer)
          [] last'.op = "downlink" ->
                downlink(a.parameter, a.first_row, a.last_row, a.index_in_block,
                         a.resize, answer)
          [] OTHER -> FALSE

\* C14: a command whose request the collaborator answers with a failure
\* raises one of the errors of the taxonomy: it does not return normally and
\* it does not let the collaborator's own error through.
C14_FailuresAreTranslated ==
    [][\A answer \in Failures :
          (command_handler # "None" /\ requests' # <<>> /\ CommandAnswered(answer))
              => last'.result.err \in TaxonomyErrors]_vars

\* C22: whenever invoke sends a request for an argument that was supplied
\* (0, false and empty bytes included) the request is the three-argument
\* invokeAction carrying the encoded argument; the argument-less invokeAction
\* is sent only when no argument was supplied.
C22_SuppliedArgumentIsSent ==
    (last.op = "invoke" /\ requests # <<>>)
        => IF Supplied(last.args) = 1
           THEN /\ requests[1].call = "invokeAction/3"
                /\ requests[1].data =
                       << _to_gen1_type(
                              last.args.argument,
                              ArgumentDefinition(
                                  action_instance(last.args.action).val.arguments[1]),
                              FALSE).val >>
           ELSE requests[1].call = "invokeAction/2"

\* The invoke that was answered named a known action with one argument of
\* variable size and supplied a byte sequence for it
VariableSizeInvoke ==
    /\ last.op = "invoke"
    /\ last.result.err # "TMTCDisconnected"
    /\ ~Raised(action_instance(last.args.action))
    /\ Len(action_instance(last.args.action).val.arguments) = 1
    /\ ~action_instance(last.args.action).val.arguments[1].is_fixed_size
    /\ last.args.argument.k = "bytes"

\* C23: for an argument of variable size, invoke sends every byte sequence
\* whose length lies within min_bytes .. max_bytes unchanged, and rejects every
\* other length without sending a request.
C23_VariableArgumentBounds ==
    VariableSizeInvoke
        => IF /\ action_instance(last.args.action).val.arguments[1].min_bytes
                    <= Len(last.args.argument.s)
              /\ Len(last.args.argument.s)
                    <= action_instance(last.args.action).val.arguments[1].max_bytes
           THEN /\ Len(requests) = 1
                /\ requests[1].call = "invokeAction/3"
                /\ requests[1].data = << last.args.argument.s >>
           ELSE /\ requests = <<>>
                /\ Raised(last.result)

\* The set that was answered reached the conversion of its value: the
\* session was connected, the target is known and may be written
SetConvertsValue ==
    /\ last.op = "set"
    /\ last.result.err # "TMTCDisconnected"
    /\ ~Raised(TargetByPresence(last.args.parameter, last.args.index_in_block))
    /\ ~TargetByPresence(last.args.parameter,
                         last.args.index_in_block).val.definition.is_read_only

\* The rows a value stands for: its elements if it is a sequence (bytes, str,
\* list), the value itself as one row if not
RowsGiven(value) ==
    IF value.k \in {"bytes", "str", "list"} THEN RowsOf(value) ELSE <<value>>

\* What set must do with `value` for a target of type `definition`
SetAsSpecified(value, definition) ==
    IF definition.type_class \in {"value", "fixed_raw"}
    THEN value.k \in {"bytes", "str", "list"}
            => (requests = <<>> /\ Raised(last.result))
    ELSE IF definition.type_class \in {"fixed_vector", "var_vector"}
    THEN /\ (\A i \in DOMAIN RowsGiven(value) :
                ~Raised(_to_gen1_type(RowsGiven(value)[i], definition, TRUE)))
            => requests # <<>>
         /\ requests # <<>>
            => /\ Len(requests[1].data) = Len(RowsGiven(value))
               /\ \A i \in DOMAIN RowsGiven(value) :
                     requests[1].data[i]
                        = _to_gen1_type(RowsGiven(value)[i], definition, FALSE).val
    ELSE TRUE

\* C25: set on a scalar type class rejects every sequence before a request is
\* sent; set on a vector type class sends a single row as exactly one encoded
\* row, and a sequence of rows as one encoded row per element, in order.
C25_SetValueShape ==
    SetConvertsValue
        => SetAsSpecified(last.args.value,
                          TargetByPresence(last.args.parameter,
                                           last.args.index_in_block).val.definition)

\* A single int row and a list of two rows were both sent to the vector
\* obc.table: here the list, as two rows in order
C25_Witness ==
    /\ last.op = "set"
    /\ last.args.parameter = PyInt(2)
    /\ last.args.value = PyList(<<PyBytes(<<1, 2>>), PyBytes(<<3, 4>>)>>)
    /\ Len(requests) = 1
    /\ requests[1].data = << <<1, 2>>, <<3, 4>> >>

\* C28: query, get, set, uplink and downlink address the element
\* block_id + index whenever index_in_block is supplied, index 0 included,
\* with the block-element type and no row-length validation.
C28_IndexSelectsBlockElement ==
    (last.op \in {"query", "get", "set", "uplink", "downlink"}
        /\ last.result.err # "TMTCDisconnected"
        /\ IsGiven(last.args.index_in_block)
        /\ ~Raised(parameter_instance_for_parameter_block(
                       last.args.parameter, last.args.index_in_block[1])))
        => /\ last.result.err # "TMTCModelQueryError"
           /\ requests # <<>> =>
                 requests[1].id
                    = parameter_instance_for_parameter_block(
                          last.args.parameter, last.args.index_in_block[1]).val.id
           /\ (last.op = "set" /\ last.args.value.k = "list"
                  /\ \A i \in DOMAIN last.args.value.s :
                         last.args.value.s[i].k = "bytes")
                 => requests # <<>>

-----------------------------------------------------------------------------
(* Properties of the name resolver, checked under SpecNames *)

EndsWith(full, name) ==
    /\ Len(name) <= Len(full)
    /\ SubSeq(full, Len(full) - Len(name) + 1, Len(full)) = name

\* The entities of the lookup tree (those whose own name has no dot) whose
\* full name ends with the given segments
Matches(d, name) ==
    { i \in 1..Len(d) : d[i].shortLen = 1 /\ EndsWith(d[i].full, name) }

\* C3: a name that is no entity's full name and that more than one entity's
\* full name ends with is reported ambiguous.
C3_SharedSuffixIsAmbiguous ==
    (lookup.op = "name_to_id" /\ ~HasName(db, lookup.arg)
        /\ Cardinality(Matches(db, lookup.arg)) > 1)
        => /\ lookup.result.err = "TMTCModelQueryError"
           /\ lookup.result.msg = "Name provided is ambiguous"

\* C4: a name that is no entity's full name resolves to the one entity whose
\* full name ends with it, and to 'not found' when there is none; never to
\* anything else.
C4_UniqueSuffixResolves ==
    (lookup.op = "name_to_id" /\ ~HasName(db, lookup.arg))
        => /\ Cardinality(Matches(db, lookup.arg)) = 1
                => /\ lookup.result.err = "none"
                   /\ \A i \in Matches(db, lookup.arg) : lookup.result.val = db[i].id
           /\ Cardinality(Matches(db, lookup.arg)) = 0
                => /\ lookup.result.err = "TMTCModelQueryError"
                   /\ lookup.result.msg = "No matching name found"

\* C5: an identifier resolves to the full name of the entity that has it,
\* and raises TMTCModelQueryError when no entity has it.
C5_IdToName ==
    lookup.op = "id_to_name"
        => IF lookup.arg[1] \in Ids(db)
           THEN /\ lookup.result.err = "none"
                /\ lookup.result.val = GetById(db, lookup.arg[1]).full
           ELSE lookup.result.err = "TMTCModelQueryError"

-----------------------------------------------------------------------------
(* Properties of the registry of subscribers, checked under SpecListeners *)

\* C11: a notify() reaches exactly the subscribers registered when it
\* started: none that was added while it ran, and, once it has returned,
\* every one of its snapshot, also when one of them unregistered itself
\* while it was notified.
C11_DeliversToSnapshot ==
    /\ Delivered \subseteq notifying.snapshot
    /\ notifying.state = "returned" => Delivered = notifying.snapshot

\* C11 happens: of two subscribers the first one notified unregistered
\* itself and the second one was notified all the same
C11_Witness ==
    /\ notifying.state = "returned"
    /\ notifying.delivered = <<"leaver", "callback">>
    /\ "leaver" \notin listeners

\* C12: when a callable raises while it is notified, the registry is left
\* as it was and every other subscriber of the snapshot has the notification.
C12_RaiseDoesNotStopDelivery ==
    [][(notifying.state = "delivering" /\ notifying'.state = "raised"
          /\ notifying'.by \in Callables)
          => /\ listeners' = listeners
             /\ \A l \in notifying.snapshot :
                   \E i \in 1..Len(notifying'.delivered) :
                       notifying'.delivered[i] = l]_vars

\* C13: a full queue among the subscribers does not keep the notification
\* from the other subscribers of the snapshot: the notification is dropped
\* for the queue only.
C13_FullQueueDoesNotStall ==
    notifying.error = "Full"
        => notifying.snapshot \ {"hk_queue"} \subseteq Delivered

-----------------------------------------------------------------------------
(* Properties of the type codec, checked under SpecCodec *)

\* Python's == on the values the codec handles: numbers by their value
PyEq(a, b) ==
    IF a.k \in {"int", "bool", "float"} /\ b.k \in {"int", "bool", "float"}
    THEN a.n = b.n
    ELSE a = b

\* -2^(n-1) <= v <= 2^(n-1) - 1
InSignedRange(v, n) == 0 - Pow(2, n - 1) <= v /\ v <= Pow(2, n - 1) - 1

\* 0 <= v < 2^n; every int the model holds is below 2^31
InUnsignedRange(v, n) == v >= 0 /\ (n > 30 \/ v < Pow(2, n))

\* The value is one the parameter type can hold
InTypeRange(v, parameter_type) ==
    IF parameter_type.type_str = "signed"
    THEN InSignedRange(v, parameter_type.bits_per_row)
    ELSE InUnsignedRange(v, parameter_type.bits_per_row)

\* The value is outside the signed type's width, or negative or too large
\* for the row of an unsigned type
OutOfRange(v, parameter_type) ==
    IF parameter_type.type_str = "signed"
    THEN ~InSignedRange(v, parameter_type.bits_per_row)
    ELSE ~InUnsignedRange(v, 8 * parameter_type.bytes_per_row)

\* C17: for a signed parameter of n bits an int is encoded exactly when it
\* lies in -2^(n-1) .. 2^(n-1)-1; outside of it the encoding fails and no
\* row comes out.
C17_SignedRange ==
    (codec.op # "none" /\ codec.parameter_type.type_str = "signed"
        /\ codec.value.k = "int")
        => /\ InSignedRange(codec.value.n, codec.parameter_type.bits_per_row)
                <=> ~Raised(codec.encoded)
           /\ ~Raised(codec.encoded)
                => Len(codec.encoded.val) = codec.parameter_type.bytes_per_row

\* C17 happens: the lower bound of a signed 12-bit parameter was encoded
C17_Witness ==
    /\ codec.op = "encode"
    /\ codec.parameter_type = IntegerType("signed", 12, 2)
    /\ codec.value = PyInt(0 - 2048)
    /\ codec.encoded = Ret(<<248, 0>>)

\* C18: an int out of range fails with an error that is not the
\* type-conversion error, and a value of the wrong kind fails with the
\* type-conversion error 'Cannot convert <kind> to Gen1 <type> type'.
C18_RangeErrorIsDistinct ==
    codec.op # "none"
        => /\ (codec.value.k = "int"
                 /\ OutOfRange(codec.value.n, codec.parameter_type))
                => /\ Raised(codec.encoded)
                   /\ codec.encoded.err # "TypeError"
           /\ codec.value.k # "int"
                => /\ codec.encoded.err = "TypeError"
                   /\ codec.encoded.msg = CannotConvert

\* C19: an int in range for an unsigned, signed or bitfield type is encoded
\* into bytes_per_row bytes, the least significant one last, and decoding
\* that row gives a value equal to the int.
C19_IntegerRoundTrip ==
    (codec.op # "none" /\ codec.value.k = "int"
        /\ InTypeRange(codec.value.n, codec.parameter_type))
        => /\ ~Raised(codec.encoded)
           /\ Len(codec.encoded.val) = codec.parameter_type.bytes_per_row
           /\ codec.encoded.val[codec.parameter_type.bytes_per_row]
                = codec.value.n % 256
           /\ codec.op = "decode" => PyEq(codec.decoded, codec.value)

\* C19 happens: -1 went through a row of 8 bytes and came back
C19_Witness ==
    /\ codec.op = "decode"
    /\ codec.parameter_type = IntegerType("signed", 31, 8)
    /\ codec.value = PyInt(0 - 1)
    /\ codec.encoded = Ret(<<255, 255, 255, 255, 255, 255, 255, 255>>)
    /\ codec.decoded = PyInt(0 - 1)

\* C27: a bitfield of exactly one bit decodes to a boolean, false for a zero
\* row and true for every other row; a bitfield of more bits and an unsigned
\* type of any width decode to the unsigned integer, never to a boolean.
C27_OneBitBitfieldIsBoolean ==
    (codec.op = "decode" /\ codec.parameter_type.type_str \in {"unsigned", "bitfield"})
        => IF /\ codec.parameter_type.type_str = "bitfield"
              /\ codec.parameter_type.bits_per_row = 1
           THEN /\ codec.decoded.k = "bool"
                /\ codec.decoded.n = 0 <=> \A i \in DOMAIN codec.encoded.val :
                                              codec.encoded.val[i] = 0
           ELSE /\ codec.decoded.k = "int"
                /\ codec.decoded.n = ReadBytes(0, codec.encoded.val)

\* The row 0x02 of a one-bit bitfield was decoded to true
C27_Witness ==
    /\ codec.op = "decode"
    /\ codec.parameter_type = IntegerType("bitfield", 1, 1)
    /\ codec.encoded = Ret(<<2>>)
    /\ codec.decoded.k = "bool"
    /\ codec.decoded.n = 1

-----------------------------------------------------------------------------
(* Properties of the encoder on rows of raw types, checked under SpecRows *)

\* C24: a byte sequence for a raw type of scalar or fixed-size class passes
\* through unchanged when its length is bytes_per_row, whatever bytes_per_row
\* is, and fails when the length differs unless the caller passed
\* validate_len=False.
C24_RowLengthIsChecked ==
    (codec.op = "encode_row" /\ codec.value.k = "bytes")
        => IF Len(codec.value.s) = codec.parameter_type.bytes_per_row
              \/ codec.validate_len = <<FALSE>>
           THEN codec.encoded = Ret(codec.value.s)
           ELSE Raised(codec.encoded)

-----------------------------------------------------------------------------
(* Properties of the row range of an uplink, checked under SpecUplinks *)

\* C29: the row range an uplink of non-empty data asks the collaborator for
\* runs forward and is large enough for the data: first_row <= last_row and
\* (last_row - first_row + 1) * bytes_per_row >= len(data); data that cannot
\* fill such a range never reaches the collaborator.
C29_UplinkRangeCoversData ==
    (last.op = "uplink" /\ requests # <<>> /\ Len(last.args.data) > 0)
        => /\ requests[1].first_row <= requests[1].last_row
           /\ (requests[1].last_row - requests[1].first_row + 1)
                 * TargetByPresence(last.args.parameter,
                                    last.args.index_in_block).val.definition.bytes_per_row
                >= Len(last.args.data)

-----------------------------------------------------------------------------
(* Properties of the event listener, checked under SpecEvents *)

\* The severity named by the two top bits of a 16-bit identifier
SeverityOf(x) ==
    CASE x < Pow(2, 14) -> "info"
      [] x < 2 * Pow(2, 14) -> "error"
      [] x < 3 * Pow(2, 14) -> "component_fatal"
      [] OTHER -> "system_fatal"

\* C26: for every 16-bit identifier x the notification carries x mod 2^14 as
\* identifier, the severity info, error, component-fatal or system-fatal for
\* x div 2^14 = 0, 1, 2, 3, and source and info unchanged.
C26_EventSeverityDecoded ==
    (event.op # "none" /\ event.op # "incoming"
        /\ 0 <= event.event_id_with_severity
        /\ event.event_id_with_severity < Pow(2, 16))
        => /\ event.op = "notified"
           /\ event.args.event_id = event.event_id_with_severity % Pow(2, 14)
           /\ event.args.severity = SeverityOf(event.event_id_with_severity)
           /\ event.args.source = event.source
           /\ event.args.info = event.info

\* The largest 16-bit identifier was notified as system-fatal event 16383
C26_Witness ==
    /\ event.op = "notified"
    /\ event.event_id_with_severity = Pow(2, 16) - 1
    /\ event.args.event_id = Pow(2, 14) - 1
    /\ event.args.severity = "system_fatal"
    /\ notifying.state = "delivering"

-----------------------------------------------------------------------------
(* Properties of the session life cycle, checked under SpecSession *)

\* Handler set, the three telemetry listeners attached to it, link connected
SessionConnected ==
    /\ command_handler # "None"
    /\ \A l \in TMListeners : handler_listeners[l] = 1
    /\ j_link = "connected"

\* Handler cleared, no telemetry listener attached, no connected link
SessionDisconnected ==
    /\ command_handler = "None"
    /\ \A l \in TMListeners : handler_listeners[l] = 0
    /\ j_link # "connected"

\* C21: used as a context manager the client connects and disconnects by
\* itself: at the step that starts the body the session is connected, and at
\* the step that leaves the block, whatever the body did, it is disconnected.
C21_WithBlockConnects ==
    [][ /\ (with_block # "body" /\ with_block' = "body") => SessionConnected'
        /\ (with_block = "body" /\ with_block' = "left") => SessionDisconnected'
      ]_vars

\* A block was left whose __exit__ did the disconnecting
C21_Witness ==
    /\ with_block = "left"
    /\ last.op = "__exit__"
    /\ last.result = Ret(PyNone)
    /\ SessionDisconnected

\* C30: the telemetry listeners are attached to the command handler exactly
\* when the session is connected, each at most once; connect on a connected
\* session changes nothing of the session, disconnect detaches all three, and
\* neither changes the subscribers of the registries.
C30_ListenersFollowConnection ==
    [][ /\ (SessionConnected' \/ SessionDisconnected')
        /\ (\E link_ok \in BOOLEAN : connect(link_ok))
              => /\ listeners' = listeners
                 /\ command_handler # "None" => UNCHANGED sessionVars
        /\ disconnect
              => /\ listeners' = listeners
                 /\ SessionDisconnected'
      ]_vars

\* A second connect was answered on a connected session with subscribers
C30_Witness ==
    /\ SessionConnected
    /\ last.op = "connect"
    /\ last.result = Ret(PyNone)
    /\ listeners # {}
    /\ with_block = "body"

====
